---- MODULE Spec2Model ----
(***************************************************************************)
(* The graph IR of utensor_cgen (src/utensor_cgen/ir/base.py): TensorInfo, *)
(* OperationInfo and uTensorGraph, as a state machine over a heap of       *)
(* OperationInfo objects and up to two uTensorGraph objects.               *)
(*                                                                         *)
(* Python objects are heap cells: an OperationInfo is an index into `heap`,*)
(* a uTensorGraph is a member of Graphs, a declared-outputs list is an     *)
(* index into `lists`. A dict is an insertion-ordered sequence of          *)
(* key/value records.                                                      *)
(***************************************************************************)
EXTENDS Integers, Sequences, FiniteSets, TLC

\* ------------------------------------------------------------------ bounds
\* Number of OperationInfo objects ever allocated (heap cells), in the runs of
\* one graph and in the runs of two.
MaxOps == 3
MaxTwoGraphOps == 2
\* In the runs of a graph and its deep copy: heap cells a constructor may fill,
\* and nodes of a graph that is copied.
MaxCopyOps == 3
MaxCopyNodes == 2
\* Longest declared-outputs list a caller grows in place.
MaxOutputs == 2
\* In the runs with longer input lists: heap cells, and the longest
\* input_tensors list handed to a constructor.
MaxInputOps == 2
MaxLongInputs == 2
\* Longest input_tensors list handed to a constructor.
MaxInputs == 1

\* ---------------------------------------------------------- input universes
Names == <<"A", "B", "C">>
NameSet == {Names[i] : i \in 1..Len(Names)}
OpTypes == {"Placeholder", "Conv2D"}
Graphs == {1, 2}
\* the absent marker (Python None) where an OperationInfo is expected
None == 0

VARIABLES
  created,          \* created[g]: the uTensorGraph object g exists
  ops_info,         \* ops_info[g]: dict name -> OperationInfo, insertion-ordered
  topo_order,       \* topo_order[g]: list of names
  type_to_op_map,   \* _type_to_op_map[g]: dict op_type -> list of OperationInfo
  output_nodes,     \* output_nodes[g]: the list object g.output_nodes refers to
  backend,          \* backend[g]: g._backend
  lists,            \* contents of the declared-outputs list objects
  heap,             \* the OperationInfo objects, by allocation order
  last              \* the call that just returned: what it was and how it ended

vars == <<created, ops_info, topo_order, type_to_op_map, output_nodes, backend, lists,
          heap, last>>

\* ------------------------------------------------------------- dict helpers
\* `name in d`
HasKey(d, name) == \E i \in 1..Len(d) : d[i].k = name

\* d.get(name, None)
DictGet(d, name) ==
  IF HasKey(d, name)
    THEN d[CHOOSE i \in 1..Len(d) : d[i].k = name].v
    ELSE None

\* d[name] = v : an existing key keeps its position, a new key goes last
DictSet(d, name, v) ==
  IF HasKey(d, name)
    THEN [i \in 1..Len(d) |-> IF d[i].k = name THEN [k |-> name, v |-> v] ELSE d[i]]
    ELSE Append(d, [k |-> name, v |-> v])

\* del d[name]
DictDel(d, name) == SelectSeq(d, LAMBDA e : e.k # name)

Keys(d) == {d[i].k : i \in 1..Len(d)}

\* list.remove(x) on a list that holds x: drops the first occurrence
ListRemove(s, x) ==
  LET i == CHOOSE j \in 1..Len(s) : s[j] = x /\ \A m \in 1..(j-1) : s[m] # x
  IN  [m \in 1..(Len(s)-1) |-> IF m < i THEN s[m] ELSE s[m+1]]

InList(s, x) == \E i \in 1..Len(s) : s[i] = x

\* index of the first occurrence of x in s, 0 when absent
IndexOf(s, x) ==
  IF InList(s, x)
    THEN CHOOSE j \in 1..Len(s) : s[j] = x /\ \A m \in 1..(j-1) : s[m] # x
    ELSE 0

\* ------------------------------------------------------------------ tensors
\* TensorInfo(name, op_name, dtype, shape, ugraph); the n-th output of op is
\* named <<op, n>>
TensorInfo(op_name, n, g) ==
  [name |-> <<op_name, n>>, op_name |-> op_name, dtype |-> "float32", shape |-> <<1>>,
   ugraph |-> g]

\* Position of a name in Names; a node consumes only producers named before it,
\* so every graph handed to the IR is acyclic.
Rank(name) == CHOOSE i \in 1..Len(Names) : Names[i] = name

RECURSIVE SeqsUpTo(_, _)
SeqsUpTo(S, n) ==
  IF n = 0 THEN {<<>>}
  ELSE LET shorter == SeqsUpTo(S, n - 1)
       IN  shorter \cup {Append(s, x) : s \in {t \in shorter : Len(t) = n - 1}, x \in S}

\* the producer-name lists a constructor call for `name` may be given
InputChoices(name) == SeqsUpTo({p \in NameSet : Rank(p) < Rank(name)}, MaxInputs)

LongInputChoices(name) == SeqsUpTo({p \in NameSet : Rank(p) < Rank(name)}, MaxLongInputs)

\* -------------------------------------------------- OperationInfo properties
\* OperationInfo.input_nodes: producer names de-duplicated in order of first
\* occurrence, each looked up in the ops_info of the node's own _ugraph
\* every producer name, repeats kept
DedupNames_all(ts) == [i \in 1..Len(ts) |-> ts[i].op_name]

DedupNames(ts) ==
  LET first == SelectSeq([i \in 1..Len(ts) |-> i],
                         LAMBDA i : \A j \in 1..(i-1) : ts[j].op_name # ts[i].op_name)
  IN  [i \in 1..Len(first) |-> ts[first[i]].op_name]

input_nodes(o) ==
  LET in_ops == DedupNames(heap[o].input_tensors)
  IN  [i \in 1..Len(in_ops) |-> DictGet(ops_info[heap[o].ugraph], in_ops[i])]

\* OperationInfo.is_dangling: None in self.input_nodes
is_dangling(o) == InList(input_nodes(o), None)

\* ------------------------------------------------------ TensorInfo properties
\* TensorInfo.op: the producer looked up by name in the tensor's own _ugraph
tensor_op(t) == DictGet(ops_info[t.ugraph], t.op_name)

\* TensorInfo.is_dangling: True without a producer, else the producer's own
\* is_dangling
tensor_is_dangling(t) == IF tensor_op(t) = None THEN TRUE ELSE is_dangling(tensor_op(t))

\* TensorInfo.n_th_output: raises ValueError on a dangling tensor, else the
\* 0-based index of the tensor's name among the producer's output tensors
\* (list.index raises ValueError when the name is not there)
n_th_output(t) ==
  IF tensor_is_dangling(t) THEN [status |-> "ValueError", ret |-> None]
  ELSE LET out_tnames == [i \in 1..Len(heap[tensor_op(t)].output_tensors) |->
                             heap[tensor_op(t)].output_tensors[i].name]
       IN  IF InList(out_tnames, t.name)
             THEN [status |-> "ok", ret |-> IndexOf(out_tnames, t.name) - 1]
             ELSE [status |-> "ValueError", ret |-> None]

\* ---------------------------------------------------------- topological sort
\* utensor_cgen.utils.topologic_order_graph: repeated selection of the first
\* node, in insertion order, whose resolvable producers are all ordered
\* already, over the whole node table d
RECURSIVE TopoFrom(_, _, _)
TopoFrom(d, h, done) ==
  LET ready == {i \in 1..Len(d) :
                  /\ ~InList(done, d[i].k)
                  /\ \A j \in 1..Len(h[d[i].v].input_tensors) :
                       LET p == h[d[i].v].input_tensors[j].op_name
                       IN  HasKey(d, p) => InList(done, p)}
  IN  IF ready = {} THEN done
      ELSE LET i == CHOOSE m \in ready : \A n \in ready : m <= n
           IN  TopoFrom(d, h, Append(done, d[i].k))

topologic_order_graph(d, h) == TopoFrom(d, h, <<>>)

\* ------------------------------------------------------------------- calls
Call(op, g, arg, obj, status, ret) ==
  [op |-> op, g |-> g, arg |-> arg, obj |-> obj, status |-> status, ret |-> ret]

EmptyMap == [t \in OpTypes |-> <<>>]

\* the declared-outputs lists a graph may be created with (never empty:
\* uTensorGraph.__attrs_post_init__ raises on an empty list)
OutputChoices == {<<Names[Len(Names)]>>}

Init ==
  /\ created = [g \in Graphs |-> g = 1]
  /\ ops_info = [g \in Graphs |-> <<>>]
  /\ topo_order = [g \in Graphs |-> <<>>]
  /\ type_to_op_map = [g \in Graphs |-> EmptyMap]
  /\ output_nodes = [g \in Graphs |-> IF g = 1 THEN 1 ELSE 0]
  /\ backend = [g \in Graphs |-> IF g = 1 THEN "tensorflow" ELSE ""]
  /\ \E outs \in OutputChoices : lists = [l \in Graphs |-> IF l = 1 THEN outs ELSE <<>>]
  /\ heap = <<>>
  /\ last = Call("uTensorGraph", 1, "", None, "ok", <<>>)

\* uTensorGraph(output_nodes=outs): a second, empty graph
NewGraph(g, outs) ==
  /\ ~created[g]
  /\ created' = [created EXCEPT ![g] = TRUE]
  /\ output_nodes' = [output_nodes EXCEPT ![g] = g]
  /\ backend' = [backend EXCEPT ![g] = "tensorflow"]
  /\ lists' = [lists EXCEPT ![g] = outs]
  /\ last' = Call("uTensorGraph", g, "", None, "ok", <<>>)
  /\ UNCHANGED <<ops_info, topo_order, type_to_op_map, heap>>

\* OperationInfo(name, ugraph=g, op_type, input_tensors, output_tensors):
\* validation, then __attrs_post_init__ stores the node under its name
NewOperationInfo(g, name, op_type, ins) ==
  [name |-> name, op_type |-> op_type, backend |-> "tensorflow", ugraph |-> g,
   input_tensors |-> [i \in 1..Len(ins) |-> TensorInfo(ins[i], 0, g)],
   output_tensors |-> <<TensorInfo(name, 0, g)>>]

OperationInfo(g, name, op_type, ins) ==
  /\ created[g]
  /\ heap' = Append(heap, NewOperationInfo(g, name, op_type, ins))
  /\ ops_info' = [ops_info EXCEPT ![g] = DictSet(@, name, Len(heap) + 1)]
  /\ last' = Call("OperationInfo", g, name, Len(heap) + 1, "ok", <<>>)
  /\ UNCHANGED <<created, topo_order, type_to_op_map, output_nodes, backend, lists>>

\* add_op without its duplicate check: the node is stored and the graph sorted
\* whatever the table holds
add_op_unchecked(g, o) ==
  /\ created[g]
  /\ ops_info' = [ops_info EXCEPT ![g] = DictSet(@, heap[o].name, o)]
  /\ topo_order' = [topo_order EXCEPT
                      ![g] = topologic_order_graph(ops_info'[g], heap)]
  /\ last' = Call("add_op", g, heap[o].name, o, "ok", <<>>)
  /\ UNCHANGED <<created, type_to_op_map, output_nodes, backend, lists, heap>>

\* uTensorGraph.add_op(op)
add_op(g, o) ==
  /\ created[g]
  /\ IF HasKey(ops_info[g], heap[o].name)
       THEN /\ last' = Call("add_op", g, heap[o].name, o, "DuplicateName", <<>>)
            /\ UNCHANGED <<ops_info, topo_order>>
       ELSE /\ ops_info' = [ops_info EXCEPT ![g] = DictSet(@, heap[o].name, o)]
            /\ topo_order' = [topo_order EXCEPT
                                ![g] = topologic_order_graph(ops_info'[g], heap)]
            /\ last' = Call("add_op", g, heap[o].name, o, "ok", <<>>)
  /\ UNCHANGED <<created, type_to_op_map, output_nodes, backend, lists, heap>>

\* uTensorGraph.drop_op(op_name)
drop_op(g, name) ==
  /\ created[g]
  /\ IF ~HasKey(ops_info[g], name)
       THEN /\ last' = Call("drop_op", g, name, None, "UnknownOp", <<>>)
            /\ UNCHANGED <<ops_info, topo_order>>
       ELSE /\ ops_info' = [ops_info EXCEPT ![g] = DictDel(@, name)]
            /\ IF InList(topo_order[g], name)
                 THEN /\ topo_order' = [topo_order EXCEPT ![g] = ListRemove(@, name)]
                      /\ last' = Call("drop_op", g, name, DictGet(ops_info[g], name),
                                      "ok", <<>>)
                 ELSE \* list.remove(x): x not in list
                      /\ UNCHANGED topo_order
                      /\ last' = Call("drop_op", g, name, DictGet(ops_info[g], name),
                                      "ValueError", <<>>)
  /\ UNCHANGED <<created, type_to_op_map, output_nodes, backend, lists, heap>>

\* the dict get_ops_by_type builds: each op_type that occurs mapped to the
\* nodes of that type, in the order of ops_info.values()
BuildTypeMap(d, h) ==
  [t \in OpTypes |->
     LET vals == [i \in 1..Len(d) |-> d[i].v]
     IN  SelectSeq(vals, LAMBDA o : h[o].op_type = t)]

\* uTensorGraph.get_ops_by_type(op_type). The dict is built only while it is
\* empty; the loop that builds it assigns each node's type to the parameter
\* op_type itself, so after a build the final lookup uses the type of the last
\* node visited.
get_ops_by_type(g, op_type) ==
  LET d == ops_info[g]
      build == type_to_op_map[g] = EmptyMap
      map == IF build THEN BuildTypeMap(d, heap) ELSE type_to_op_map[g]
      key == IF build /\ Len(d) > 0 THEN heap[d[Len(d)].v].op_type ELSE op_type
  IN  /\ created[g]
      /\ type_to_op_map' = [type_to_op_map EXCEPT ![g] = map]
      /\ last' = Call("get_ops_by_type", g, op_type, None, "ok", map[key])
      /\ UNCHANGED <<created, ops_info, topo_order, output_nodes, backend, lists, heap>>

\* TensorInfo.__deepcopy__ : the same tensor bound to memo['ugraph']
CopyTensor(t, g) == [t EXCEPT !.ugraph = g]

\* a copy of the node that keeps the tensor objects of the original
CopyOperationInfo_shallow(op, g) == [op EXCEPT !.ugraph = g]

\* OperationInfo.__deepcopy__ : the same node, tensors included, bound to
\* memo['ugraph']
CopyOperationInfo(op, g) ==
  [op EXCEPT !.ugraph = g,
             !.input_tensors = [i \in 1..Len(@) |-> CopyTensor(@[i], g)],
             !.output_tensors = [i \in 1..Len(@) |-> CopyTensor(@[i], g)]]

\* uTensorGraph.__deepcopy__ : deepcopy(src), the copy being the graph object
\* dst. The copy is created around the very list src.output_nodes refers to.
deepcopy(src, dst) ==
  LET d == ops_info[src]
      n == Len(heap)
      copies == [i \in 1..Len(d) |-> CopyOperationInfo(heap[d[i].v], dst)]
      new_info == [i \in 1..Len(d) |-> [k |-> d[i].k, v |-> n + i]]
  IN  /\ created[src]
      /\ ~created[dst]
      /\ created' = [created EXCEPT ![dst] = TRUE]
      /\ output_nodes' = [output_nodes EXCEPT ![dst] = output_nodes[src]]
      /\ backend' = [backend EXCEPT ![dst] = backend[src]]
      /\ heap' = heap \o copies
      /\ ops_info' = [ops_info EXCEPT ![dst] = new_info]
      /\ topo_order' = [topo_order EXCEPT
                          ![dst] = topologic_order_graph(new_info, heap')]
      /\ last' = Call("deepcopy", src, "", None, "ok", <<>>)
      /\ UNCHANGED <<type_to_op_map, lists>>

\* uTensorGraph.ops: the nodes named by topo_order, looked up in ops_info
\* (a KeyError for a name that is no key)
ops(g) ==
  IF \A i \in 1..Len(topo_order[g]) : HasKey(ops_info[g], topo_order[g][i])
    THEN [status |-> "ok",
          ret |-> [i \in 1..Len(topo_order[g]) |-> DictGet(ops_info[g], topo_order[g][i])]]
    ELSE [status |-> "KeyError", ret |-> <<>>]

\* OperationInfo.output_nodes: the nodes of self._ugraph.ops with an input
\* tensor produced by self.name, each name once in the order met, looked up
\* in ops_info
op_output_nodes(o) ==
  LET g == heap[o].ugraph
      consumers == SelectSeq(ops(g).ret,
                             LAMBDA c : \E j \in 1..Len(heap[c].input_tensors) :
                                          heap[c].input_tensors[j].op_name = heap[o].name)
      first == SelectSeq([i \in 1..Len(consumers) |-> i],
                         LAMBDA i : \A j \in 1..(i-1) :
                                      heap[consumers[j]].name # heap[consumers[i]].name)
  IN  IF ops(g).status # "ok" THEN [status |-> "KeyError", ret |-> <<>>]
      ELSE [status |-> "ok",
            ret |-> [i \in 1..Len(first) |->
                       DictGet(ops_info[g], heap[consumers[first[i]]].name)]]

\* uTensorGraph.graph_def: asserts the tensorflow backend, then emits one
\* NodeDef (name, op, input tensor names) per name of topo_order, looked up in
\* ops_info. Nodes carry no op_attr, so the attribute loop has nothing to do.
graph_def(g) ==
  IF backend[g] # "tensorflow" THEN [status |-> "AssertionError", ret |-> <<>>]
  ELSE IF ops(g).status # "ok" THEN [status |-> "KeyError", ret |-> <<>>]
  ELSE [status |-> "ok",
        ret |-> [i \in 1..Len(topo_order[g]) |->
                   LET op_info == heap[DictGet(ops_info[g], topo_order[g][i])]
                   IN  [name |-> op_info.name,
                        op |-> op_info.op_type,
                        input |-> [j \in 1..Len(op_info.input_tensors) |->
                                     op_info.input_tensors[j].name]]]]

\* g.output_nodes.append(name) by a caller: output_nodes is a public attribute
\* holding a plain list, changed in place through whichever graph refers to it
output_nodes_append(g, name) ==
  /\ created[g]
  /\ lists' = [lists EXCEPT ![output_nodes[g]] = Append(@, name)]
  /\ last' = Call("output_nodes.append", g, name, None, "ok", <<>>)
  /\ UNCHANGED <<created, ops_info, topo_order, type_to_op_map, output_nodes, backend, heap>>

\* ----------------------------------------------------------- specifications
\* One graph, created empty, driven by its callers: node construction,
\* add_op, drop_op and get_ops_by_type in any order with any arguments.
Next ==
  \/ \E name \in NameSet, t \in OpTypes :
       \E ins \in InputChoices(name) :
         Len(heap) < MaxOps /\ OperationInfo(1, name, t, ins)
  \/ \E o \in 1..Len(heap) : add_op(1, o)
  \/ \E name \in NameSet : drop_op(1, name)
  \/ \E t \in OpTypes : get_ops_by_type(1, t)

Spec == Init /\ [][Next]_vars

\* Two graphs: the second is created empty or as a deep copy of the first, and
\* a node of either may be handed to add_op of the other. Fewer names, one
\* op_type and fewer nodes keep the two-graph state space small.
TwoGraphNames == {Names[1], Names[2]}
TwoGraphTypes == {"Conv2D"}

NextTwoGraphs ==
  \/ \E g \in Graphs, outs \in OutputChoices : NewGraph(g, outs)
  \/ \E src \in Graphs, dst \in Graphs :
       Len(heap) + Len(ops_info[src]) <= MaxTwoGraphOps /\ deepcopy(src, dst)
  \/ \E g \in Graphs, name \in TwoGraphNames, t \in TwoGraphTypes :
       \E ins \in InputChoices(name) :
         Len(heap) < MaxTwoGraphOps /\ OperationInfo(g, name, t, ins)
  \/ \E g \in Graphs, o \in 1..Len(heap) : add_op(g, o)
  \/ \E g \in Graphs, name \in TwoGraphNames : drop_op(g, name)

SpecTwoGraphs == Init /\ [][NextTwoGraphs]_vars

\* A graph and its deep copy: the first graph is built by construction, copied
\* once, and then both are mutated, their declared-outputs lists included.
NextCopy ==
  \/ \E src \in Graphs, dst \in Graphs :
       Len(ops_info[src]) <= MaxCopyNodes /\ deepcopy(src, dst)
  \/ \E g \in Graphs, name \in TwoGraphNames, t \in TwoGraphTypes :
       \E ins \in InputChoices(name) :
         Len(heap) < MaxCopyOps /\ OperationInfo(g, name, t, ins)
  \/ \E g \in Graphs, name \in TwoGraphNames : drop_op(g, name)
  \/ \E g \in Graphs, name \in TwoGraphNames :
       /\ created[g]
       /\ Len(lists[output_nodes[g]]) < MaxOutputs
       /\ output_nodes_append(g, name)

SpecCopy == Init /\ [][NextCopy]_vars

\* One graph whose nodes take several inputs, repeated producers included.
NextInputs ==
  \/ \E name \in NameSet, t \in TwoGraphTypes :
       \E ins \in LongInputChoices(name) :
         Len(heap) < MaxInputOps /\ OperationInfo(1, name, t, ins)
  \/ \E o \in 1..Len(heap) : add_op(1, o)
  \/ \E name \in NameSet : drop_op(1, name)

SpecInputs == Init /\ [][NextInputs]_vars

\* ------------------------------------------------------------------ claims
ToSet(s) == {s[i] : i \in 1..Len(s)}
Values(d) == {d[i].v : i \in 1..Len(d)}
NoRepeats(s) == \A i, j \in 1..Len(s) : s[i] = s[j] => i = j
Without(s, x) == SelectSeq(s, LAMBDA e : e # x)
\* the nodes of g's table whose op_type is k
NodesOfType(g, k) == {o \in Values(ops_info[g]) : heap[o].op_type = k}
\* the names a node's input tensors are produced by
Producers(o) == {heap[o].input_tensors[j].op_name : j \in 1..Len(heap[o].input_tensors)}
Mutations == {"OperationInfo", "add_op", "drop_op"}

\* C1: after any completed mutation, every node named in topo_order has each
\* producer of its inputs that the node table resolves at a strictly smaller
\* index of topo_order.
C1_TopoOrderValid ==
  \A g \in Graphs : created[g] =>
    \A i \in 1..Len(topo_order[g]) :
      LET o == DictGet(ops_info[g], topo_order[g][i])
      IN  o # None =>
            \A p \in Producers(o) :
              HasKey(ops_info[g], p) =>
                /\ InList(topo_order[g], p)
                /\ IndexOf(topo_order[g], p) < i

\* C2: after every completed construction, add_op, drop_op or deep copy,
\* topo_order holds each key of ops_info exactly once and no other name.
C2_TopoOrderCoversOpsInfo ==
  \A g \in Graphs : created[g] =>
    /\ NoRepeats(topo_order[g])
    /\ ToSet(topo_order[g]) = Keys(ops_info[g])

\* C3: add_op of a node constructed against G, under a name no other node of G
\* holds, succeeds and leaves the node in ops_info and its name in topo_order.
C3_AddOpRegistersConstructedNode ==
  ( /\ last.op = "add_op"
    /\ heap[last.obj].ugraph = last.g
    /\ DictGet(ops_info[last.g], last.arg) = last.obj )
  => /\ last.status = "ok"
     /\ InList(topo_order[last.g], last.arg)

\* C4: add_op of a node whose name is already a key of ops_info fails with the
\* duplicate-name error and leaves ops_info (same keys, same node objects)
\* and topo_order as they were.
C4_DuplicateAddOpRejected ==
  [][\A g \in Graphs, name \in NameSet :
       ( /\ last'.op = "add_op" /\ last'.g = g /\ last'.arg = name
         /\ HasKey(ops_info[g], name) )
       => /\ last'.status = "DuplicateName"
          /\ ops_info' = ops_info
          /\ topo_order' = topo_order]_vars

\* a duplicate add_op was refused on a graph that has been sorted, the node
\* offered being another object than the one registered under the name
C4_Witness ==
  /\ last.op = "add_op"
  /\ last.status = "DuplicateName"
  /\ topo_order[last.g] # <<>>
  /\ DictGet(ops_info[last.g], last.arg) # last.obj

\* C5: constructing a node under a name that is already a key of ops_info
\* fails with the duplicate-name error, and the node registered under that
\* name stays the one stored.
C5_DuplicateConstructionRejected ==
  [][\A g \in Graphs, name \in NameSet :
       ( /\ last'.op = "OperationInfo" /\ last'.g = g /\ last'.arg = name
         /\ HasKey(ops_info[g], name) )
       => /\ last'.status = "DuplicateName"
          /\ DictGet(ops_info'[g], name) = DictGet(ops_info[g], name)]_vars

\* C6: a get_ops_by_type(k) call made right after a mutation returns exactly
\* the nodes now in ops_info whose op_type is k. Stated for the calls that
\* find the index built already, where no rebuild stands between the mutation
\* and the answer.
C6_TypeIndexNeverStale ==
  [][\A g \in Graphs, k \in OpTypes :
       ( /\ last.op \in Mutations /\ last.g = g /\ last.status = "ok"
         /\ last'.op = "get_ops_by_type" /\ last'.g = g /\ last'.arg = k
         /\ type_to_op_map[g] # EmptyMap )
       => /\ ToSet(last'.ret) = NodesOfType(g, k)
          /\ NoRepeats(last'.ret)]_vars

\* C7: a get_ops_by_type(k) call that finds the index empty (the first call
\* included) returns exactly the nodes of ops_info whose op_type is k, and the
\* empty list when there is none.
C7_FirstQueryReturnsRequestedType ==
  [][\A g \in Graphs, k \in OpTypes :
       ( /\ last'.op = "get_ops_by_type" /\ last'.g = g /\ last'.arg = k
         /\ type_to_op_map[g] = EmptyMap )
       => /\ ToSet(last'.ret) = NodesOfType(g, k)
          /\ NoRepeats(last'.ret)]_vars

\* C8: drop_op of a key of ops_info completes without error; the name is then
\* neither a key of ops_info nor in topo_order, every other entry of ops_info
\* and the relative order of the other names of topo_order are as before.
C8_DropOpOfKeyCompletes ==
  [][\A g \in Graphs, name \in NameSet :
       ( /\ last'.op = "drop_op" /\ last'.g = g /\ last'.arg = name
         /\ HasKey(ops_info[g], name) )
       => /\ last'.status = "ok"
          /\ ops_info'[g] = DictDel(ops_info[g], name)
          /\ ~InList(topo_order'[g], name)
          /\ topo_order'[g] = Without(topo_order[g], name)]_vars

\* C9: drop_op(name) leaves the tensors of every node as they were, so every
\* node left in the table with an input tensor produced by the dropped name
\* has a None entry in input_nodes and is_dangling = True.
C9_DropOpLeavesConsumersDangling ==
  [][\A g \in Graphs, name \in NameSet :
       ( /\ last'.op = "drop_op" /\ last'.g = g /\ last'.arg = name
         /\ HasKey(ops_info[g], name) )
       => /\ heap' = heap
          /\ \A o \in 1..Len(heap) :
               (o \in Values(ops_info'[g]) /\ name \in Producers(o))
               => /\ InList(input_nodes(o), None)'
                  /\ is_dangling(o)']_vars

\* C10: for every node n of G.ops_info, n.is_dangling is True exactly when
\* one of n's input tensors has an op_name that is no key of G.ops_info.
C10_DanglingIffProducerMissing ==
  \A g \in Graphs : created[g] =>
    \A o \in Values(ops_info[g]) :
      is_dangling(o) <=> \E p \in Producers(o) : ~HasKey(ops_info[g], p)

\* order lists each key of the node table d exactly once, and no other name,
\* with every producer that d resolves before its consumers
IsTopoOrderOf(order, d, h) ==
  /\ NoRepeats(order)
  /\ ToSet(order) = Keys(d)
  /\ \A i \in 1..Len(order) :
       \A j \in 1..Len(h[DictGet(d, order[i])].input_tensors) :
         LET p == h[DictGet(d, order[i])].input_tensors[j].op_name
         IN  HasKey(d, p) => IndexOf(order, p) < i

\* C11: with G' = deepcopy(G) (graph 2 exists only as the deep copy of graph
\* 1, and its topo_order is non-empty only if the copy was handed nodes),
\* every construction bound to G' and every drop_op on G' leaves G.ops_info
\* and G.topo_order unchanged, and leaves G'.topo_order a valid topological
\* order of exactly the keys of G'.ops_info.
C11_CopyIndependence ==
  [][(created[2] /\ topo_order[2] # <<>> /\ last'.op \in Mutations /\ last'.g = 2)
       => /\ ops_info'[1] = ops_info[1]
          /\ topo_order'[1] = topo_order[1]
          /\ IsTopoOrderOf(topo_order'[2], ops_info'[2], heap')]_vars

\* C12: a graph and its deep copy share no mutable state: an in-place change
\* made to the declared-outputs list through one of them (an append to
\* g.output_nodes) is not observable through the other.
C12_CopySharesNoMutableState ==
  [][\A g \in Graphs, h \in Graphs :
       (last'.op = "output_nodes.append" /\ last'.g = g /\ h # g /\ created[h])
       => lists'[output_nodes'[h]] = lists[output_nodes[h]]]_vars

\* what a tensor list says apart from the graph it is bound to
TensorFields(ts) ==
  [i \in 1..Len(ts) |-> <<ts[i].name, ts[i].op_name, ts[i].dtype, ts[i].shape>>]

\* C13: G' = deepcopy(G) leaves G as it was (node table, order, type index,
\* backend, declared outputs and every node object), and G' has the same node
\* names, under each name a node of the same name, op_type and backend with
\* the same ordered input and output tensor names, op_names, dtypes and
\* shapes, G'.backend = G.backend, and every node and tensor of G'.ops_info
\* is bound to G'.
C13_DeepCopyStructurallyEqual ==
  [][\A src \in Graphs, dst \in Graphs :
       (last'.op = "deepcopy" /\ last'.g = src /\ ~created[dst] /\ created'[dst])
       => /\ ops_info'[src] = ops_info[src]
          /\ topo_order'[src] = topo_order[src]
          /\ type_to_op_map'[src] = type_to_op_map[src]
          /\ backend'[src] = backend[src]
          /\ output_nodes'[src] = output_nodes[src]
          /\ lists'[output_nodes[src]] = lists[output_nodes[src]]
          /\ \A o \in 1..Len(heap) : heap'[o] = heap[o]
          /\ Keys(ops_info'[dst]) = Keys(ops_info[src])
          /\ backend'[dst] = backend[src]
          /\ \A name \in Keys(ops_info[src]) :
               LET a == heap[DictGet(ops_info[src], name)]
                   b == heap'[DictGet(ops_info'[dst], name)]
               IN  /\ b.name = a.name
                   /\ b.op_type = a.op_type
                   /\ b.backend = a.backend
                   /\ TensorFields(b.input_tensors) = TensorFields(a.input_tensors)
                   /\ TensorFields(b.output_tensors) = TensorFields(a.output_tensors)
                   /\ b.ugraph = dst
                   /\ \A i \in 1..Len(b.input_tensors) : b.input_tensors[i].ugraph = dst
                   /\ \A i \in 1..Len(b.output_tensors) : b.output_tensors[i].ugraph = dst]_vars

\* a deep copy has just been made of a graph of two nodes, one consuming the other
C13_Witness ==
  /\ last.op = "deepcopy"
  /\ Len(ops_info[2]) = 2
  /\ \E o \in Values(ops_info[2]) :
       \E i \in 1..Len(heap[o].input_tensors) :
         HasKey(ops_info[2], heap[o].input_tensors[i].op_name)

\* C14: in every state reached by a completed mutation (a construction, an
\* add_op or a drop_op that returned), every name of G.output_nodes is a key
\* of G.ops_info.
C14_DeclaredOutputsAreKeys ==
  \A g \in Graphs :
    (created[g] /\ last.op \in Mutations /\ last.g = g /\ last.status = "ok")
    => ToSet(lists[output_nodes[g]]) \subseteq Keys(ops_info[g])

\* the tensors reachable from g's node table
TensorsOf(g) ==
  UNION {ToSet(heap[o].input_tensors) \cup ToSet(heap[o].output_tensors) :
           o \in Values(ops_info[g])}

\* C15: for every tensor t, n_th_output succeeds whenever the producer named
\* t.op_name is present in t's graph, returning t's position among the
\* producer's output_tensors, and fails only when that producer is absent,
\* whether or not the producer itself has an unresolved input.
C15_NthOutputFailsOnlyWithoutProducer ==
  \A g \in Graphs : created[g] =>
    \A t \in TensorsOf(g) :
      IF HasKey(ops_info[t.ugraph], t.op_name)
        THEN LET outs == heap[DictGet(ops_info[t.ugraph], t.op_name)].output_tensors
             IN  (\E i \in 1..Len(outs) : outs[i].name = t.name)
                 => /\ n_th_output(t).status = "ok"
                    /\ outs[n_th_output(t).ret + 1].name = t.name
        ELSE n_th_output(t).status = "ValueError"

\* C16: exporting a graph in which some node of topo_order is dangling fails:
\* graph_def raises instead of returning a serialized graph.
C16_ExportOfDanglingGraphRaises ==
  \A g \in Graphs : created[g] =>
    ((\E i \in 1..Len(topo_order[g]) :
        /\ HasKey(ops_info[g], topo_order[g][i])
        /\ is_dangling(DictGet(ops_info[g], topo_order[g][i])))
     => graph_def(g).status # "ok")

\* C17: for every node n of G.ops_info, n.output_nodes lists, each once,
\* exactly the nodes of G.ops_info with at least one input tensor produced by
\* n, in every reachable state.
C17_OutputNodesAreAllConsumers ==
  \A g \in Graphs : created[g] =>
    \A o \in Values(ops_info[g]) :
      /\ op_output_nodes(o).status = "ok"
      /\ NoRepeats(op_output_nodes(o).ret)
      /\ ToSet(op_output_nodes(o).ret)
           = {c \in Values(ops_info[g]) : heap[o].name \in Producers(c)}

\* index of the first input tensor of o produced by p
FirstOcc(o, p) ==
  CHOOSE j \in 1..Len(heap[o].input_tensors) :
    /\ heap[o].input_tensors[j].op_name = p
    /\ \A m \in 1..(j-1) : heap[o].input_tensors[m].op_name # p

\* C18: for every node n, n.input_nodes has one entry per distinct producer
\* name among n.input_tensors, in the order the names first occur, and the
\* entry for a name is the node registered under it in the ops_info of n's
\* graph, or None when that table has no such key.
C18_InputNodesPerDistinctProducer ==
  \A o \in 1..Len(heap) :
    LET P == Producers(o)
        d == ops_info[heap[o].ugraph]
        Pos(p) == 1 + Cardinality({q \in P : FirstOcc(o, q) < FirstOcc(o, p)})
    IN  /\ Len(input_nodes(o)) = Cardinality(P)
        /\ \A p \in P :
             IF HasKey(d, p)
               THEN \E i \in 1..Len(d) : d[i].k = p /\ d[i].v = input_nodes(o)[Pos(p)]
               ELSE input_nodes(o)[Pos(p)] = None

\* the table holds a node with a repeated producer, and a node whose two
\* producers first occur against the order of their names, one of them
\* registered and the other not
C18_Witness ==
  /\ \E o \in Values(ops_info[1]) :
       Len(heap[o].input_tensors) > Cardinality(Producers(o))
  /\ \E o \in Values(ops_info[1]) :
       /\ Len(heap[o].input_tensors) = 2
       /\ Rank(heap[o].input_tensors[1].op_name) > Rank(heap[o].input_tensors[2].op_name)
       /\ Len(input_nodes(o)) = 2
       /\ input_nodes(o)[1] # None
       /\ input_nodes(o)[2] = None

\* C19: drop_op is all-or-nothing: whenever drop_op(name) raises, for an
\* unknown name or for any other reason, G.ops_info and G.topo_order are
\* exactly as before the call.
C19_DropOpAllOrNothing ==
  [][\A g \in Graphs, name \in NameSet :
       (last'.op = "drop_op" /\ last'.g = g /\ last'.arg = name
        /\ last'.status # "ok")
       => /\ ops_info'[g] = ops_info[g]
          /\ topo_order'[g] = topo_order[g]]_vars

====
